---- MODULE Spec2Model ----
(***************************************************************************)
(* The adaptive time-stepping control loop of TimeStepper.cpp.             *)
(*                                                                         *)
(* Time is measured on an integer grid: one grid unit is the smallest step *)
(* the controller can propose.  Quantities that the code computes as       *)
(* quotients of reals are kept exact as pairs <<numerator, denominator>>.  *)
(* The collaborators whose code is not part of TimeStepper.cpp (time slab, *)
(* solution, adaptivity controller, fixed point iteration) are modelled    *)
(* from their documented contract; their data-dependent results are        *)
(* nondeterministic inputs of the attempt.                                 *)
(***************************************************************************)
EXTENDS Integers, Sequences, FiniteSets, TLC

\* Bounds of the model
TMax == 4          \* largest end time T, in grid units
SamplesMax == 3    \* largest "number of samples"
NMax == 1          \* largest number of ODE components
ExtraSteps == 1    \* most calls of step() made after the run has finished

VARIABLES
  T,              \* end time                      (TimeStepper.cpp:22)
  N,              \* number of components          (TimeStepper.cpp:21)
  no_samples,     \* "number of samples"           (TimeStepper.cpp:21)
  save_solution,  \* "save solution"               (TimeStepper.cpp:24)
  t,              \* current time                  (TimeStepper.cpp:21)
  _finished,      \* finished flag                 (TimeStepper.cpp:24)
  p,              \* progress, a fraction <<num, den>>
  u,              \* solution: [cur, base, time]
  adaptivity,     \* controller: [k, fixed, stab]
  file,           \* the samples written, in order: fractions <<num, den>>
  pc,             \* position of solve(): "solve", "step", "done"
  ret,            \* value returned by the last step()
  tcall,          \* t when the running step() was called
  last,           \* record of the most recent slab attempt
  count           \* [accepted, rejected, finishedSet]: events of the run so far

vars == <<T, N, no_samples, save_solution, t, _finished, p, u, adaptivity,
          file, pc, ret, tcall, last, count>>

config == <<T, N, no_samples, save_solution>>

----------------------------------------------------------------------------
\* Arithmetic helpers

Min(a, b) == IF a <= b THEN a ELSE b

Max(a, b) == IF a >= b THEN a ELSE b

\* ceil(a / b) for a >= 0, b > 0
CeilDiv(a, b) == (a + b - 1) \div b

\* equality and order of fractions with positive denominators
FracEq(x, y) == x[1] * y[2] = y[1] * x[2]

FracLeq(x, y) == x[1] * y[2] <= y[1] * x[2]

\* damping factors alpha reported by the iteration, in quarters:
\* 1/4, 1/2, 3/4 and 1 (the default, left untouched)
Alphas == {1, 2, 3, 4}

\* subdivision hints m reported by the iteration (0 is the default)
Ms == {0, 1}

\* the values one component can take
UVals == {0, 1}

\* all solution vectors of n components
UVectors(n) == [1..n -> UVals]

\* the step sizes the controller can hold, given the end time
Steps(TT) == 1..Max(TT, 1)

----------------------------------------------------------------------------
\* The collaborators, from their documented contract

\* A time slab over [t0, end): the end is the controller's step size ahead
\* of the start, clipped so as not to exceed the end time.
TimeSlab(t0, TT, ad) == [start |-> t0, end |-> Min(t0 + ad.k, TT)]

\* The uniform slab of the first step.
SimpleTimeSlab(t0, TT, ad) == TimeSlab(t0, TT, ad)

\* The outer interval of the recursive slab of every later step.
RecursiveTimeSlab(t0, TT, ad) == TimeSlab(t0, TT, ad)

TimeSlab_length(slab) == slab.end - slab.start

\* timeslab.finished(): the slab reaches the end time
TimeSlab_finished(slab, TT) == slab.end = TT

\* fixpoint.iterate mutates the solution in place, whether or not it converges
Fixpoint_iterate(s, w) == [s EXCEPT !.cur = w]

\* u.reset(): discard the tentative values
Solution_reset(s) == [s EXCEPT !.cur = s.base]

\* u.shift(t): commit the tentative values as the state at time tt
Solution_shift(s, tt) == [s EXCEPT !.base = s.cur, !.time = tt]

\* adaptivity.shift(u, f): a pinned step size stays, otherwise the step-size
\* model moves to the estimate knew computed from the state and the residual
Adaptivity_shift(ad, knew) == IF ad.fixed THEN ad ELSE [ad EXCEPT !.k = knew]

\* the estimates adaptivity.shift can arrive at after an accepted slab
ShiftChoices == IF adaptivity.fixed THEN {adaptivity.k} ELSE Steps(T)

\* the estimates adaptivity.shift arrives at when the residual was too large:
\* the estimate is revised downward
ResidualChoices == {j \in Steps(T) : j < adaptivity.k}

\* adaptivity.stabilize(k, m): the next step is at most the stabilized step
\* k, given in quarters of a grid unit as kq
Adaptivity_stabilize(ad, kq, m, knew) == [ad EXCEPT !.k = knew]

\* the grid steps that are at most the stabilized step kq / 4; there is none
\* for a slab of one grid unit, which is taken to be short enough to converge
StabChoices(kq) == {j \in Steps(T) : 4 * j <= kq}

----------------------------------------------------------------------------
\* TimeStepper

\* finished()
finished == _finished

\* no slab has been attempted yet
NoAttempt ==
  [kind |-> "none", start |-> 0, end |-> 0, conv |-> FALSE, result |-> "none",
   tentative |-> <<>>, calls |-> <<>>,
   before |-> [t |-> 0, finished |-> FALSE, p |-> <<0, 1>>, file |-> <<>>,
               u |-> <<>>, k |-> 0]]

\* the stepper's state as an attempt finds it
Before ==
  [t |-> t, finished |-> _finished, p |-> p, file |-> file, u |-> u,
   k |-> adaptivity.k]

\* the record of an attempt on slab, whose iteration left the solution ui,
\* that ended with result after making calls
Attempt(kind, slab, ui, conv, result, calls) ==
  [kind |-> kind, start |-> slab.start, end |-> slab.end, conv |-> conv,
   result |-> result, tentative |-> ui.cur, calls |-> calls, before |-> Before]

\* the sampling loop of save(): samples every K = T / no_samples while before
\* the slab's end.  The sample time is num / no_samples and endn is the
\* slab's end time multiplied by no_samples.
RECURSIVE SaveLoop(_, _)
SaveLoop(num, endn) ==
  IF num < endn
  THEN <<(<<num, no_samples>>)>> \o SaveLoop(num + T, endn)
  ELSE <<>>

\* a faulty save(): the first sample time is rounded down, not up
Samples_floor(slab) ==
  LET first == ((slab.start * no_samples) \div T) * T
      loop == SaveLoop(first, slab.end * no_samples)
      final == IF TimeSlab_finished(slab, T) THEN <<(<<slab.end, 1>>)>> ELSE <<>>
  IN  loop \o final

\* the samples save() writes for a slab.  With T = 0 or no samples requested,
\* K or the first sample time is not a number and the loop condition is false.
Samples(slab) ==
  LET first == CeilDiv(slab.start * no_samples, T) * T
      loop == IF T <= 0 \/ no_samples <= 0
              THEN <<>>
              ELSE SaveLoop(first, slab.end * no_samples)
      final == IF TimeSlab_finished(slab, T) THEN <<(<<slab.end, 1>>)>> ELSE <<>>
  IN  loop \o final

\* save(timeslab)
save(slab) ==
  file' = IF ~save_solution THEN file ELSE file \o Samples(slab)

\* a faulty shift(): the solution is committed at the time before the update
shift_stale(ui, knew) ==
  /\ adaptivity' = Adaptivity_shift(adaptivity, knew)
  /\ u' = Solution_shift(ui, t)

\* a faulty shift(): the solution is not committed
shift_noCommit(ui, knew) ==
  /\ adaptivity' = Adaptivity_shift(adaptivity, knew)
  /\ u' = ui

\* shift(): the controller first, then the solution, at the updated time
shift(ui, knew) ==
  /\ adaptivity' = Adaptivity_shift(adaptivity, knew)
  /\ u' = Solution_shift(ui, t')

\* a faulty stabilizing step: one half of K, whatever alpha is
StabilizedStep_half(alpha4, K) == 2 * K

\* a faulty stabilizing step: alpha is taken as it is, without the cap
StabilizedStep_uncapped(alpha4, K) == alpha4 * K

\* the stabilizing time step min(alpha, 0.5) * K, in quarters of a grid unit,
\* for alpha given in quarters
StabilizedStep(alpha4, K) == Min(alpha4, 2) * K

\* stabilize(K)
stabilize(K, alpha4, m, knew) ==
  adaptivity' = Adaptivity_stabilize(adaptivity, StabilizedStep(alpha4, K), m, knew)

\* a faulty update of the time: the slab's start is taken for its end
UpdateTime_start(slab) == slab.start

\* the time after an accepted slab: t = timeslab.endtime()
UpdateTime(slab) == slab.end

\* a faulty rollback: the tentative values are kept
Rollback_none(ui) == ui

\* the rollback of a rejected slab: u.reset()
Rollback(ui) == Solution_reset(ui)

\* a faulty progress: computed from the time before the update
Progress_stale(tt, fin) == IF fin THEN <<1, 1>> ELSE <<t, T>>

\* the progress after a slab ending at tt: t / T, and 1.0 when done
Progress(tt, fin) == IF fin THEN <<1, 1>> ELSE <<tt, T>>

\* a faulty check: every accepted slab ends the run
Finished_always(fin) == TRUE

\* a faulty check: the flag is never set
Finished_never(fin) == _finished

\* the finished flag after a slab
Finished(fin) == IF fin THEN TRUE ELSE _finished

\* the calls every accepted slab makes after the checks
AcceptCalls(slab) ==
  <<(<<"t", t'>>), (<<"save", slab.start>>), (<<"adaptivity.shift", 0>>),
    (<<"u.shift", u'.time>>), (<<"p", p'[1]>>)>>
  \o (IF TimeSlab_finished(slab, T) THEN <<(<<"_finished", 1>>)>> ELSE <<>>)

\* the slab is accepted: update time, save, shift, update progress, check
\* if we are done
Accept(kind, slab, ui, knew, calls) ==
  LET fin == TimeSlab_finished(slab, T) IN
  /\ t' = UpdateTime(slab)
  /\ save(slab)
  /\ shift(ui, knew)
  /\ p' = Progress(t', fin)
  /\ _finished' = Finished(fin)
  /\ count' = [count EXCEPT !.accepted = @ + 1,
                            !.finishedSet = @ + (IF fin THEN 1 ELSE 0)]
  /\ last' = Attempt(kind, slab, ui, TRUE, "accepted", calls \o AcceptCalls(slab))

\* a faulty rejection: the controller is not stabilized
RejectIteration_noStabilize(kind, slab, ui, alpha4, m, knew) ==
  /\ u' = Rollback(ui)
  /\ count' = [count EXCEPT !.rejected = @ + 1]
  /\ last' = Attempt(kind, slab, ui, FALSE, "iteration",
                     <<(<<"fixpoint.iterate", 0>>), (<<"u.reset", 0>>)>>)
  /\ UNCHANGED <<t, _finished, p, file, adaptivity>>

\* the fixed point iteration failed: stabilize, reset, return false
RejectIteration(kind, slab, ui, alpha4, m, knew) ==
  /\ stabilize(TimeSlab_length(slab), alpha4, m, knew)
  /\ u' = Rollback(ui)
  /\ count' = [count EXCEPT !.rejected = @ + 1]
  /\ last' = Attempt(kind, slab, ui, FALSE, "iteration",
                     <<(<<"fixpoint.iterate", 0>>),
                       (<<"fixpoint.stabilization", alpha4>>),
                       (<<"adaptivity.stabilize",
                          StabilizedStep(alpha4, TimeSlab_length(slab)), m>>),
                       (<<"u.reset", 0>>)>>)
  /\ UNCHANGED <<t, _finished, p, file>>

\* a faulty rejection: the residual is checked after the time was updated
RejectResidual_late(kind, slab, ui, knew) ==
  /\ t' = slab.end
  /\ adaptivity' = Adaptivity_shift(adaptivity, knew)
  /\ u' = Rollback(ui)
  /\ count' = [count EXCEPT !.rejected = @ + 1]
  /\ last' = Attempt(kind, slab, ui, TRUE, "residual",
                     <<(<<"fixpoint.iterate", 1>>), (<<"adaptivity.fixed", 0>>),
                       (<<"adaptivity.accept", 0>>), (<<"adaptivity.shift", 0>>),
                       (<<"u.reset", 0>>)>>)
  /\ UNCHANGED <<_finished, p, file>>

\* the residual is too large: shift the controller, reset, return false
RejectResidual(kind, slab, ui, knew) ==
  /\ adaptivity' = Adaptivity_shift(adaptivity, knew)
  /\ u' = Rollback(ui)
  /\ count' = [count EXCEPT !.rejected = @ + 1]
  /\ last' = Attempt(kind, slab, ui, TRUE, "residual",
                     <<(<<"fixpoint.iterate", 1>>), (<<"adaptivity.fixed", 0>>),
                       (<<"adaptivity.accept", 0>>), (<<"adaptivity.shift", 0>>),
                       (<<"u.reset", 0>>)>>)
  /\ UNCHANGED <<t, _finished, p, file>>

\* a faulty check: the residual is checked with a fixed step too
ResidualChecked_always == TRUE

\* the residual check of the first slab: it is made only with a step
\* that is not fixed
ResidualChecked == ~adaptivity.fixed

\* createFirstTimeSlab(): the iteration leaves the solution at some w and
\* fails, or converges with a residual that is checked and found too large,
\* or converges and the slab is accepted
createFirstTimeSlab ==
  \E w \in UVectors(N) :
    LET slab == SimpleTimeSlab(t, T, adaptivity)
        ui == Fixpoint_iterate(u, w)
    IN  \/ \E alpha4 \in Alphas, m \in Ms :
             \E knew \in StabChoices(StabilizedStep(alpha4, TimeSlab_length(slab))) :
               RejectIteration("first", slab, ui, alpha4, m, knew)
        \/ /\ ResidualChecked
           /\ \E knew \in ResidualChoices : RejectResidual("first", slab, ui, knew)
        \/ \E knew \in ShiftChoices :
             Accept("first", slab, ui, knew,
                    <<(<<"fixpoint.iterate", 1>>), (<<"adaptivity.fixed", 0>>)>>
                    \o (IF ResidualChecked
                        THEN <<(<<"adaptivity.accept", 1>>)>> ELSE <<>>))

\* a faulty createGeneralTimeSlab(): the residual is checked as it is for
\* the first slab
createGeneralTimeSlab_checked ==
  \E w \in UVectors(N) :
    LET slab == RecursiveTimeSlab(t, T, adaptivity)
        ui == Fixpoint_iterate(u, w)
    IN  \/ \E alpha4 \in Alphas, m \in Ms :
             \E knew \in StabChoices(StabilizedStep(alpha4, TimeSlab_length(slab))) :
               RejectIteration("general", slab, ui, alpha4, m, knew)
        \/ \E knew \in ResidualChoices : RejectResidual("general", slab, ui, knew)
        \/ \E knew \in ShiftChoices :
             Accept("general", slab, ui, knew,
                    <<(<<"fixpoint.iterate", 1>>), (<<"adaptivity.accept", 1>>)>>)

\* createGeneralTimeSlab(): the iteration fails, or converges and the slab
\* is accepted; the residual is not checked
createGeneralTimeSlab ==
  \E w \in UVectors(N) :
    LET slab == RecursiveTimeSlab(t, T, adaptivity)
        ui == Fixpoint_iterate(u, w)
    IN  \/ \E alpha4 \in Alphas, m \in Ms :
             \E knew \in StabChoices(StabilizedStep(alpha4, TimeSlab_length(slab))) :
               RejectIteration("general", slab, ui, alpha4, m, knew)
        \/ \E knew \in ShiftChoices :
             Accept("general", slab, ui, knew, <<(<<"fixpoint.iterate", 1>>)>>)

\* a faulty dispatch: the recursive slab is used from the start
createTimeSlab_general == createGeneralTimeSlab

\* createTimeSlab(): the first slab at t = 0, the general slab afterwards
createTimeSlab ==
  IF t = 0 THEN createFirstTimeSlab ELSE createGeneralTimeSlab

\* a faulty loop: step() returns after one attempt, accepted or not
StepReturns_always == TRUE

\* step() returns once createTimeSlab() has returned true
StepReturns == last'.result = "accepted"

\* one pass of the loop of step(): an attempt, and the return of t after
\* an accepted one
step ==
  /\ pc = "step"
  /\ createTimeSlab
  /\ IF StepReturns
     THEN pc' = "solve" /\ ret' = t'
     ELSE pc' = "step" /\ ret' = ret
  /\ UNCHANGED <<config, tcall>>

\* a faulty loop of solve(): step() is called without asking finished()
solve_unchecked ==
  /\ pc = "solve"
  /\ pc' = "step"
  /\ tcall' = t
  /\ UNCHANGED <<config, t, _finished, p, u, adaptivity, file, ret, last, count>>

\* the loop of solve(): call step() unless finished
solve ==
  /\ pc = "solve"
  /\ IF ~finished
     THEN pc' = "step" /\ tcall' = t
     ELSE pc' = "done" /\ tcall' = tcall
  /\ UNCHANGED <<config, t, _finished, p, u, adaptivity, file, ret, last, count>>

\* a client of the stepper calls step() once more although finished() is
\* true: step() itself does not ask
stepAgain ==
  /\ pc = "done"
  /\ count.finishedSet <= ExtraSteps
  /\ pc' = "step"
  /\ tcall' = t
  /\ UNCHANGED <<config, t, _finished, p, u, adaptivity, file, ret, last, count>>

\* the state after construction, for the configurations and initial values
\* in Ts, Ns, Ss
Constructed(Ts, Ns, Ss) ==
  /\ T \in Ts
  /\ N \in Ns
  /\ no_samples \in Ss
  /\ save_solution \in BOOLEAN
  /\ t = 0
  /\ _finished = FALSE
  /\ p = <<0, 1>>
  /\ \E w \in UVectors(N) : u = [cur |-> w, base |-> w, time |-> 0]
  /\ \E k0 \in Steps(T), fx \in BOOLEAN : adaptivity = [k |-> k0, fixed |-> fx]
  /\ file = <<>>
  /\ pc = "solve"
  /\ ret = 0
  /\ tcall = 0
  /\ last = NoAttempt
  /\ count = [accepted |-> 0, rejected |-> 0, finishedSet |-> 0]

\* the configurations that are valid
ValidConfig == N > 0 /\ T > 0 /\ no_samples > 0

\* a run of solve() on a valid configuration
Init == Constructed(1..TMax, 1..NMax, 1..SamplesMax)

\* a run of solve() on any configuration, valid or not
InitAny == Constructed(0..TMax, 0..NMax, 0..SamplesMax)

Next == solve \/ step

Spec == Init /\ [][Next]_vars

SpecAny == InitAny /\ [][Next]_vars

\* a client that drives step() itself and may call it after the end
NextApi == Next \/ stepAgain

SpecApi == Init /\ [][NextApi]_vars

\* a run of solve() on a valid configuration of one component that asks
\* for samples at the coarsest cadence or for none
InitLive ==
  /\ Constructed(1..TMax, {1}, {1})
  /\ u.base = <<0>>

\* the stepper keeps running: solve() and step() are loops of one thread
SpecLive == InitLive /\ [][Next]_vars /\ WF_vars(Next)

----------------------------------------------------------------------------
\* The claims

\* the step just taken accepted a slab
Accepted == count'.accepted # count.accepted

\* the step just taken rejected a slab
Rejected == count'.rejected # count.rejected

\* the last attempt was rejected
LastRejected == last.result \in {"iteration", "residual"}

\* C1: monotonic bounded time. In every state of a run 0 <= t <= T, and
\* every acceptance of a slab leaves t strictly greater than it was, and at
\* most T.
C1_MonotonicBoundedTime ==
  /\ [](0 <= t /\ t <= T)
  /\ [][Accepted => (t' > t /\ t' <= T)]_vars

\* C1: a run with a rejection and several accepted slabs has reached T
C1_Witness == count.accepted >= 2 /\ count.rejected >= 1 /\ t = T

\* C2: the finished flag is false initially, is set exactly once in a run,
\* only by the acceptance of a slab that ends at T, is true exactly when
\* t = T, and once true stays true.
C2_FinishedFlag ==
  /\ ~finished
  /\ [](finished <=> t = T)
  /\ [](finished <=> count.finishedSet = 1)
  /\ [](count.finishedSet <= 1)
  /\ [](pc = "done" => count.finishedSet = 1)
  /\ [][count'.finishedSet # count.finishedSet
          => (Accepted /\ last'.result = "accepted" /\ last'.end = T)]_vars
  /\ [][finished => finished']_vars

\* C2: solve() has returned after more than one slab, the flag set
C2_Witness == pc = "done" /\ finished /\ count.accepted >= 2

\* C3: rollback. After a rejected attempt, by iteration failure or by the
\* residual, the solution is what it was when the attempt began, whatever
\* the iteration made of it.
C3_Rollback == LastRejected => u = last.before.u

\* C3: a residual rejection after the iteration changed the solution
C3_Witness ==
  /\ last.result = "residual"
  /\ last.tentative # last.before.u.cur
  /\ u = last.before.u

\* C3: the same for an iteration failure of a later slab
C3_WitnessGeneral ==
  /\ last.result = "iteration"
  /\ last.kind = "general"
  /\ last.tentative # last.before.u.cur

\* the length of the slab the next attempt constructs
NextLength == TimeSlab_length(TimeSlab(t, T, adaptivity))

\* the length of the slab of the last attempt
LastLength == last.end - last.start

\* C4, as claimed: after every rejected attempt, whatever its cause, the
\* next slab is proposed at most half as long as the rejected one.
C4_ShrinkOnAnyRejection == LastRejected => 2 * NextLength <= LastLength

\* C4, amended: after every attempt rejected by a failure of the fixed
\* point iteration, the next slab is proposed at most half as long as the
\* rejected one.
C4_ShrinkOnIterationFailure ==
  last.result = "iteration" => 2 * NextLength <= LastLength

\* C4: an iteration failure on a later slab that was clipped by T
C4_Witness ==
  /\ last.result = "iteration"
  /\ last.kind = "general"
  /\ LastLength < last.before.k
  /\ LastLength >= 2

\* the calls of the last attempt to the operation named name
CallsTo(name) == {i \in DOMAIN last.calls : last.calls[i][1] = name}

\* C5: step() returns only after an accepted slab. A rejected attempt
\* leaves the stepper inside step(), an accepted one ends the call, and the
\* call returns the end of the accepted slab, which is the new t and is
\* greater than t was at the call.
C5_StepReturnsAccepted ==
  /\ [][(pc = "step" /\ pc' # "step")
          => /\ Accepted
             /\ last'.result = "accepted"
             /\ ret' = t'
             /\ ret' = last'.end
             /\ t' > tcall]_vars
  /\ [][Rejected => (pc = "step" /\ pc' = "step" /\ ret' = ret)]_vars
  /\ [][Accepted => (pc = "step" /\ pc' = "solve")]_vars
  /\ [](pc = "step" => t = tcall)

\* C5: the first call of step() has returned after two rejected attempts
C5_Witness ==
  /\ pc = "solve"
  /\ count.accepted = 1
  /\ count.rejected >= 2
  /\ ret = t
  /\ t > 0

\* C6: with a fixed step, every attempt whose iteration converges is
\* accepted, in both paths: t is the slab's end, the tentative solution is
\* committed, and adaptivity.accept was not consulted.
C6_FixedSkipsResidual ==
  (adaptivity.fixed /\ last.kind # "none" /\ last.conv)
    => /\ last.result = "accepted"
       /\ t = last.end
       /\ u.base = last.tentative
       /\ u.cur = last.tentative
       /\ CallsTo("adaptivity.accept") = {}

\* C6: a first slab accepted with a fixed step
C6_Witness ==
  /\ adaptivity.fixed
  /\ last.kind = "first"
  /\ last.conv
  /\ last.result = "accepted"
  /\ last.tentative # last.before.u.cur

\* C6: a later slab accepted with a fixed step
C6_WitnessGeneral ==
  /\ adaptivity.fixed
  /\ last.kind = "general"
  /\ last.conv
  /\ last.result = "accepted"

\* the number of multiples of K = T / no_samples in [0, tt)
SamplesBefore(tt) == CeilDiv(tt * no_samples, T)

\* C7: sampling cadence. With save_solution, the samples written up to t
\* are the multiples of K = T / no_samples below t, once each and in
\* increasing order, and the end time T once the run is finished; so a
\* complete run writes the no_samples multiples of K in [0, T) and then T.
\* A rejected attempt writes nothing.
C7_SamplingCadence ==
  /\ save_solution =>
       /\ Len(file) = SamplesBefore(t) + (IF finished THEN 1 ELSE 0)
       /\ \A j \in 1..SamplesBefore(t) :
            FracEq(file[j], <<(j - 1) * T, no_samples>>)
       /\ finished => FracEq(file[Len(file)], <<T, 1>>)
  /\ (save_solution /\ pc = "done") => Len(file) = no_samples + 1
  /\ LastRejected => file = last.before.file

\* C7: a complete run with K = 4/3, several slabs and a rejection
C7_Witness ==
  /\ pc = "done"
  /\ save_solution
  /\ T = 4
  /\ no_samples = 3
  /\ count.accepted >= 3
  /\ count.rejected >= 1

\* C8: a run with a fixed step k that divides T in which no attempt has
\* been rejected. t is the number of accepted slabs times k, the run is
\* finished exactly when that is T, and solve() returns after T / k slabs.
C8_FixedStepRun ==
  (adaptivity.fixed /\ count.rejected = 0 /\ T % adaptivity.k = 0)
    => /\ t = count.accepted * adaptivity.k
       /\ finished <=> count.accepted * adaptivity.k = T
       /\ pc = "done" => count.accepted = T \div adaptivity.k
       /\ count.accepted >= 1 => (last.result = "accepted"
                                  /\ last.end - last.start = adaptivity.k)

\* C8: solve() has returned after 4 slabs of length 1
C8_Witness ==
  /\ pc = "done"
  /\ adaptivity.fixed
  /\ adaptivity.k = 1
  /\ T = 4
  /\ count.rejected = 0
  /\ count.accepted = 4

\* C9, as claimed: a configuration with N = 0, T <= 0 or no samples is
\* refused at construction, and no slab is ever attempted for it.
C9_InvalidConfigRejected == ~ValidConfig => last.kind = "none"

\* C10: the progress is in [0, 1], never decreases, is t / T after every
\* accepted slab, changes only when a slab is accepted, and is 1.0 whenever
\* the run is finished.
C10_Progress ==
  /\ [](FracLeq(<<0, 1>>, p) /\ FracLeq(p, <<1, 1>>))
  /\ [](finished => p = <<1, 1>>)
  /\ [][FracLeq(p, p')]_vars
  /\ [][Accepted => FracEq(p', <<t', T>>)]_vars
  /\ [][p' # p => Accepted]_vars

\* C10: a rejection after an accepted slab, before the end
C10_Witness ==
  /\ LastRejected
  /\ count.accepted >= 1
  /\ ~finished
  /\ FracEq(p, <<t, T>>)
  /\ p[1] > 0

\* C11: slab-variant dispatch. Every attempt made at t = 0, retries
\* included, uses the uniform slab and every attempt made at t > 0 the
\* recursive slab, so after the first accepted slab no uniform slab is
\* constructed again.
C11_SlabDispatch ==
  /\ [](last.kind # "none" => (last.kind = "first" <=> last.before.t = 0))
  /\ [](last.kind # "none" => (last.kind = "general" <=> last.before.t > 0))
  /\ [][(count.accepted >= 1 /\ last' # last) => last'.kind = "general"]_vars

\* C11: a retry of the first slab after two rejections
C11_Witness ==
  /\ last.kind = "first"
  /\ count.rejected >= 3
  /\ count.accepted = 0

\* C12: residual-check asymmetry. adaptivity.accept is consulted only in
\* the first-slab path and only with a step that is not fixed; in the
\* general path every attempt whose iteration converges is accepted; a
\* residual rejection happens only at t = 0.
C12_ResidualAsymmetry ==
  /\ CallsTo("adaptivity.accept") # {}
       => (last.kind = "first" /\ ~adaptivity.fixed /\ last.before.t = 0)
  /\ (last.kind = "general" /\ last.conv) => last.result = "accepted"
  /\ last.result = "residual" => (last.kind = "first" /\ last.before.t = 0)

\* C12: a later slab accepted without a residual check, after the first
\* slab was rejected for its residual
C12_Witness ==
  /\ last.kind = "general"
  /\ last.conv
  /\ last.result = "accepted"
  /\ ~adaptivity.fixed
  /\ count.rejected >= 1
  /\ CallsTo("adaptivity.accept") = {}

\* C13: a rejected attempt leaves t, the finished flag, the progress and
\* the samples written as they were before it, and does not call u.shift.
C13_RejectionFrame ==
  /\ [][Rejected => (t' = t /\ _finished' = _finished /\ p' = p /\ file' = file
                     /\ u'.base = u.base /\ u'.time = u.time)]_vars
  /\ [](LastRejected => /\ t = last.before.t
                        /\ _finished = last.before.finished
                        /\ p = last.before.p
                        /\ file = last.before.file
                        /\ CallsTo("u.shift") = {})

\* C13: a later slab rejected with samples already written
C13_Witness ==
  /\ LastRejected
  /\ last.kind = "general"
  /\ save_solution
  /\ Len(file) >= 2
  /\ t > 0

\* the number of calls of the last attempt to the operation named name
NCalls(name) == Cardinality(CallsTo(name))

\* the position of the one call of the last attempt to name, 0 if none
CallAt(name) ==
  IF CallsTo(name) = {} THEN 0 ELSE CHOOSE i \in CallsTo(name) : TRUE

\* C14, as claimed: adaptivity.shift is invoked once for every accepted
\* slab and only for an accepted slab, adaptivity.stabilize once for every
\* iteration failure and only for a rejected slab, and no rejected attempt
\* invokes adaptivity.shift.
C14_CallDiscipline ==
  /\ last.result = "accepted" => NCalls("adaptivity.shift") = 1
  /\ NCalls("adaptivity.shift") > 0 => last.result = "accepted"
  /\ last.result = "iteration" => NCalls("adaptivity.stabilize") = 1
  /\ NCalls("adaptivity.stabilize") > 0 => LastRejected
  /\ LastRejected => NCalls("adaptivity.shift") = 0

\* C14, amended: adaptivity.shift is invoked once for every accepted slab
\* and once for every slab rejected for its residual, and for no other;
\* adaptivity.stabilize once for every iteration failure, and for no other;
\* an attempt rejected by an iteration failure does not invoke
\* adaptivity.shift.
C14_CallDisciplineAmended ==
  /\ last.result \in {"accepted", "residual"} => NCalls("adaptivity.shift") = 1
  /\ NCalls("adaptivity.shift") > 0 => last.result \in {"accepted", "residual"}
  /\ last.result = "iteration" => NCalls("adaptivity.stabilize") = 1
  /\ NCalls("adaptivity.stabilize") > 0 => last.result = "iteration"
  /\ last.result = "iteration" => NCalls("adaptivity.shift") = 0
  /\ last.result = "iteration" => 4 * adaptivity.k <= last.calls[CallAt("adaptivity.stabilize")][2]

\* C14: an iteration failure of a later slab, after an accepted one
C14_Witness ==
  /\ last.result = "iteration"
  /\ last.kind = "general"
  /\ NCalls("adaptivity.stabilize") = 1
  /\ adaptivity.k < last.before.k

\* the names of the calls of the last attempt, in order
CallNames == [i \in DOMAIN last.calls |-> last.calls[i][1]]

\* the calls of an accepted slab after its checks
AcceptTail ==
  <<"t", "save", "adaptivity.shift", "u.shift", "p">>
  \o (IF last.end = T THEN <<"_finished">> ELSE <<>>)

\* the calls of an accepted slab before the update of the time
AcceptHead ==
  IF last.kind = "general" THEN <<"fixpoint.iterate">>
  ELSE IF adaptivity.fixed THEN <<"fixpoint.iterate", "adaptivity.fixed">>
  ELSE <<"fixpoint.iterate", "adaptivity.fixed", "adaptivity.accept">>

\* C15: acceptance ordering. An accepted slab sets t to the slab's end,
\* then saves the samples, then shifts the controller, then commits the
\* solution at the updated t, then sets the progress and, for a slab
\* ending at T, the finished flag: each once and in this order, so the
\* samples are taken before the commit.
C15_AcceptanceOrder ==
  last.result = "accepted"
    => /\ CallNames = AcceptHead \o AcceptTail
       /\ last.calls[CallAt("t")][2] = last.end
       /\ last.calls[CallAt("u.shift")][2] = last.end
       /\ last.calls[CallAt("p")][2] = (IF last.end = T THEN 1 ELSE last.end)
       /\ CallAt("t") < CallAt("save")
       /\ CallAt("save") < CallAt("adaptivity.shift")
       /\ CallAt("adaptivity.shift") < CallAt("u.shift")
       /\ CallAt("u.shift") < CallAt("p")
       /\ t = last.end
       /\ u.time = t
       /\ u.base = last.tentative
       /\ (last.end = T) <=> (NCalls("_finished") = 1)

\* C15: the final slab of a run, accepted after the first
C15_Witness ==
  /\ last.result = "accepted"
  /\ last.kind = "general"
  /\ last.end = T
  /\ save_solution
  /\ last.tentative # last.before.u.cur
  /\ NCalls("_finished") = 1

\* C16: commit xor rollback. Every attempt ends with exactly one of
\* u.shift(t), for an accepted slab, and u.reset(), for a rejected one, and
\* between attempts the solution holds no tentative values.
C16_CommitXorRollback ==
  /\ last.kind # "none" =>
       /\ NCalls("u.shift") + NCalls("u.reset") = 1
       /\ last.result = "accepted" <=> NCalls("u.shift") = 1
       /\ LastRejected <=> NCalls("u.reset") = 1
       /\ last.before.u.cur = last.before.u.base
  /\ u.cur = u.base

\* C16: a slab committed after a rolled back attempt, the iteration having
\* changed the solution
C16_Witness ==
  /\ last.result = "accepted"
  /\ count.rejected >= 1
  /\ last.tentative # last.before.u.cur
  /\ u.base = last.tentative

\* C17: the stabilized step. Every iteration failure calls
\* fixpoint.stabilization, then adaptivity.stabilize with
\* k = min(alpha, 0.5) * K for the rejected slab's length K and the
\* reported alpha and m, then u.reset(); so k <= 0.5 * K. (The log holds k
\* and alpha in quarters.)
C17_StabilizedStep ==
  last.result = "iteration"
    => LET a == last.calls[CallAt("fixpoint.stabilization")][2]
           kq == last.calls[CallAt("adaptivity.stabilize")][2]
       IN  /\ CallNames = <<"fixpoint.iterate", "fixpoint.stabilization",
                            "adaptivity.stabilize", "u.reset">>
           /\ a \in Alphas
           /\ last.calls[CallAt("adaptivity.stabilize")][3] \in Ms
           /\ kq = Min(a, 2) * LastLength
           /\ kq <= 2 * LastLength
           /\ 4 * adaptivity.k <= kq

\* C17: a failure of a slab of length 3 with the defaults alpha = 1, m = 0
C17_Witness ==
  /\ last.result = "iteration"
  /\ last.calls[CallAt("fixpoint.stabilization")][2] = 4
  /\ last.calls[CallAt("adaptivity.stabilize")][3] = 0
  /\ last.calls[CallAt("adaptivity.stabilize")][2] = 2 * LastLength
  /\ LastLength = 3

\* C18, as claimed: every slab constructed starts at the current time and
\* has start < end <= T, also when step() is called after the run has
\* finished.
C18_SlabInterval ==
  last.kind # "none"
    => /\ last.start = last.before.t
       /\ last.start < last.end
       /\ last.end <= T

\* C19: termination of solve(). With attempts at the smallest step always
\* accepted, every rejection shrinking the step and every accepted slab at
\* least one grid unit long (the controller and iteration as modelled),
\* every call of step() returns and solve() ends, finished and at t = T,
\* and calls step() no more once finished.
C19_Termination ==
  /\ <>(pc = "done")
  /\ (pc = "step") ~> (pc = "solve")
  /\ [](pc = "done" => (finished /\ t = T))
  /\ [][finished => pc' # "step"]_vars
  /\ [][pc = "done" => pc' = "done"]_vars

\* C19: solve() has ended after three rejected attempts and several slabs
C19_Witness ==
  /\ pc = "done"
  /\ finished
  /\ t = T
  /\ count.rejected >= 3
  /\ count.accepted >= 2

====
